---- MODULE Spec2Model ----
(***************************************************************************)
(* A model of src/griddb.py: the SteamGridDB command line client.  One run *)
(* of the program is one behaviour: the arguments are fixed in Init, the   *)
(* remote API answers each request nondeterministically, and the run ends  *)
(* in pc = "exited" with the process exit status.                          *)
(*                                                                         *)
(* Python's None is the empty tuple <<>> and a present optional value x is *)
(* <<x>> (game_id, count, title).  Strings are sequences of characters     *)
(* where the code looks inside them (titles), atoms otherwise.             *)
(***************************************************************************)
EXTENDS Integers, Sequences, FiniteSets, TLC

VARIABLES pc, args, net, out, results, game_id, title, images, directory,
          selected, idx, resp, dirs, written, exc, exit

vars == <<pc, args, net, out, results, game_id, title, images, directory,
          selected, idx, resp, dirs, written, exc, exit>>

----------------------------------------------------------------------------
(* Bounds of the model *)

MaxImages == 3
MaxCount == 4
MaxGames == 2
MaxTitleLen == 3

----------------------------------------------------------------------------
(* Values *)

None == <<>>
Some(x) == <<x>>
IsNone(o) == o = <<>>
Val(o) == o[1]

Min(a, b) == IF a < b THEN a ELSE b
Max(a, b) == IF a < b THEN b ELSE a

(* class Artwork(Enum) *)
ArtworkMembers == {"GRID", "HERO", "LOGO", "ICON"}

ArtworkValue(member) ==
    CASE member = "GRID" -> "grids"
      [] member = "HERO" -> "hereos"
      [] member = "LOGO" -> "logos"
      [] member = "ICON" -> "icons"

(* class Endpoint *)
Top == "https://www.steamgriddb.com/api/v2/"

artwork_path(gid, type) == <<Top, ArtworkValue(type), "game", gid>>

search_path(query) == <<Top, "search", "autocomplete", query>>

search_path_id(gid) == <<Top, "games", "id", gid>>

(* The status codes the remote service answers with in the model. *)
Statuses == {200, 204, 401, 404, 500}

NoExc == [type |-> "None"]

ScriptError(msg) == [type |-> "ScriptError", msg |-> msg]

PyError(type) == [type |-> type]

(* _requests_get: the outcome of one requests.get answered with `status`   *)
(* for the resolved url `url`; the exception raised, or NoExc when the     *)
(* response is returned.                                                   *)
RemoteMessage(status, url) ==
    IF status = 401
    THEN [text |-> "Unauthorized API request: HTTP Error", code |-> status,
          hint |-> Some("Did you generate an API key from your account?"),
          url |-> None]
    ELSE IF status = 404
    THEN [text |-> "Requested page was not found: HTTP Error", code |-> status,
          hint |-> None, url |-> Some(url)]
    ELSE [text |-> "HTTP Error", code |-> status, hint |-> None, url |-> None]

RequestsGet_ClientErrorsOnly(status, url) ==
    IF status >= 400 THEN ScriptError(RemoteMessage(status, url)) ELSE NoExc

RequestsGet_NeverRaises(status, url) == NoExc

RequestsGet(status, url) ==
    IF status # 200 THEN ScriptError(RemoteMessage(status, url)) ELSE NoExc

----------------------------------------------------------------------------
(* Titles and the directory name *)

AsciiAlnum == {"a", "Z", "7", "o", "m", "H", "L", "2", "P", "k", "n"}
UnicodeAlnum == {"U+00E9"}
Alphabet == {"a", "7", "_", "-", "U+00E9", " ", ":"}

(* \w of a Python 3 str pattern: Unicode letters and digits, and "_" *)
IsWord(c) == c \in AsciiAlnum \cup UnicodeAlnum \cup {"_"}

(* the character class [^\w\-_] *)
InClass(c) == ~(IsWord(c) \/ c = "-" \/ c = "_")

(* the end of the greedy match of [^\w\-_]+ that starts at position i *)
RECURSIVE MatchEnd(_, _)
MatchEnd(s, i) ==
    IF i < Len(s) /\ InClass(s[i + 1]) THEN MatchEnd(s, i + 1) ELSE i

(* re.sub(pattern, '_', s) scanning from position i *)
RECURSIVE ReSub(_, _)
ReSub(s, i) ==
    IF i > Len(s) THEN <<>>
    ELSE IF InClass(s[i])
         THEN <<"_">> \o ReSub(s, MatchEnd(s, i) + 1)
         ELSE <<s[i]>> \o ReSub(s, i + 1)

SanitizeTitle_PerCharacter(t) ==
    [i \in 1..Len(t) |-> IF InClass(t[i]) THEN "_" ELSE t[i]]

SanitizeTitle(t) == ReSub(t, 1)

(* _create_directory: the directory string it builds and returns *)
CreateDirectory(gid, type, ttl) ==
    IF IsNone(ttl)
    THEN [title |-> None, game_id |-> gid, sub |-> ArtworkValue(type)]
    ELSE [title |-> Some(SanitizeTitle(Val(ttl))), game_id |-> gid,
          sub |-> ArtworkValue(type)]

----------------------------------------------------------------------------
(* Records served by the remote API *)

GameNames == { <<"H", "L", ":", " ", "2">>,
               <<"P", "o", "k", "U+00E9", "m", "o", "n">> }

(* the game records of the catalogue: {id, name} of a search answer *)
Games == { [id |-> 1234, name |-> <<"H", "L", ":", " ", "2">>],
           [id |-> 5678, name |-> <<"P", "o", "k", "U+00E9", "m", "o", "n">>] }

SeqsUpTo(S, n) == UNION {[1..k -> S] : k \in 0..n}

SearchBodies ==
    {[success |-> FALSE]}
    \cup {[success |-> TRUE, data |-> [type |-> "list", val |-> l]] :
             l \in SeqsUpTo(Games, MaxGames)}
    \cup {[success |-> TRUE, data |-> [type |-> "dict", val |-> g]] : g \in Games}

ErrorBody == [success |-> FALSE]

(* The i-th image record of an artwork answer; thumbnails are JPEGs. *)
Image(i) ==
    [id |-> 100 + i, score |-> 10 - i,
     nsfw |-> IF i = 2 THEN "True" ELSE "False",
     url |-> [stem |-> <<"cdn", "grid", 100 + i>>, suffix |-> ".png"],
     thumb |-> [stem |-> <<"cdn", "thumb", 100 + i>>,
                suffix |-> IF i = 3 THEN ".png" ELSE ".jpg"]]

ImageList(n) == [i \in 1..n |-> Image(i)]

(* Path(image_url).suffix *)
Suffix(u) == u.suffix

----------------------------------------------------------------------------
(* Arguments of a run *)

ListQuery(words) == [type |-> "list", val |-> words]
StrQuery(chars) == [type |-> "str", val |-> chars]

Queries == { ListQuery(<<>>),
             ListQuery(<<"doom", "eternal">>),
             StrQuery(<<"half", " ", "life">>) }

(* str.split() *)
Split(s) == SelectSeq(s, LAMBDA w : w # " ")

(* ' '.join(query) *)
RECURSIVE Join(_)
Join(words) ==
    IF Len(words) <= 1 THEN words
    ELSE <<Head(words), " ">> \o Join(Tail(words))

(* urllib.parse.quote on the joined words *)
Quote(s) == [i \in 1..Len(s) |-> IF s[i] = " " THEN "%20" ELSE s[i]]

ArtworkVerbs == {"grid", "hero", "logo", "icon"}

(* action_grid / action_hero / action_icon / action_logo: the member each  *)
(* verb passes to _download_images                                         *)
VerbArtwork(verb) ==
    CASE verb = "grid" -> "GRID"
      [] verb = "hero" -> "HERO"
      [] verb = "logo" -> "LOGO"
      [] verb = "icon" -> "ICON"

ValidNsfw == {"true", "false", "any"}
ValidTypes == {"static", "animated", "any"}

(* Values a caller can pass; "maybe" and "loud" reach _download_images     *)
(* only when it is called as a library function, argparse rejects them.    *)
NsfwValues == ValidNsfw \cup {"maybe"}
TypesValues == ValidTypes \cup {"loud"}

Counts == {None} \cup {Some(c) : c \in -1..MaxCount}

ArtworkArgs ==
    [verb : ArtworkVerbs, query : Queries, game_id : {None, Some(1234)},
     thumb : BOOLEAN, nsfw : NsfwValues, types : TypesValues, count : Counts]

SearchArgs ==
    [verb : {"search"},
     query : {q \in Queries : q.type = "list"},
     game_id : {None, Some(1234)},
     thumb : {FALSE}, nsfw : {"false"}, types : {"any"},
     count : Counts \ {None}]

----------------------------------------------------------------------------
(* Helpers of the pipeline *)

Request(kind, url, params, auth, status, body) ==
    [kind |-> kind, url |-> url, params |-> params, auth |-> auth,
     status |-> status, body |-> body]

NoParams == <<>>

(* _print_data: the block printed for one game record *)
PrintData(game) == <<"Game", game.id, game.name>>

Unset == [type |-> "unset"]
PyNone == [type |-> "NoneType"]
PyList(l) == [type |-> "list", val |-> l]

(* _auto_search answered with (status, body): the request it issues, what  *)
(* it prints, the exception it raises and the value it returns.            *)
AutoSearch(query, gid, status, body) ==
    LET byId == ~IsNone(gid)
        path == IF byId THEN search_path_id(Val(gid))
                ELSE search_path(Quote(Join(query)))
        raised == RequestsGet(status, path)
        req == Request(IF byId THEN "byid" ELSE "search", path, NoParams,
                       TRUE, status, body)
        printed == IF byId THEN <<>> ELSE << <<"Searching", Join(query)>> >>
    IN  IF ~byId /\ query = <<>>
        THEN [req |-> <<>>, out |-> <<>>,
              exc |-> ScriptError([text |-> "Please specify a search query or id"]),
              ret |-> Unset]
        ELSE IF raised.type # "None"
        THEN [req |-> <<req>>, out |-> printed, exc |-> raised, ret |-> Unset]
        ELSE IF body.success
        THEN [req |-> <<req>>, out |-> printed, exc |-> NoExc,
              ret |-> IF body.data.type = "list"
                      THEN PyList(body.data.val)
                      ELSE PyList(<<body.data.val>>)]
        ELSE [req |-> <<req>>, out |-> printed, exc |-> NoExc, ret |-> PyNone]

(* images['data'][:count] *)
PySlice_OneMore(s, count) ==
    IF IsNone(count) THEN s
    ELSE SubSeq(s, 1, Min(Val(count) + 1, Len(s)))

PySlice(s, count) ==
    IF IsNone(count) THEN s
    ELSE IF Val(count) >= 0
         THEN SubSeq(s, 1, Min(Val(count), Len(s)))
         ELSE SubSeq(s, 1, Max(Len(s) + Val(count), 0))

(* the payload built from the validated filters: 'any' becomes None *)
Payload_Verbatim(nsfw, types) == [nsfw |-> Some(nsfw), types |-> Some(types)]

Payload(nsfw, types) ==
    [nsfw |-> IF nsfw = "any" THEN None ELSE Some(nsfw),
     types |-> IF types = "any" THEN None ELSE Some(types)]

(* requests.get(params=filters): keys whose value is None are not sent *)
SentParams(payload) ==
    [k \in {f \in {"nsfw", "types"} : ~IsNone(payload[f])} |-> Val(payload[k])]

(* the file name of one image record, built from image[link] *)
FileName(dir, gid, image, link) ==
    [dir |-> dir, game_id |-> gid, score |-> image.score, id |-> image.id,
     nsfw |-> image.nsfw,
     ext |-> Suffix(IF link = "thumb" THEN image.thumb ELSE image.url)]

----------------------------------------------------------------------------
(* The run *)

Init ==
    /\ pc = "main"
    /\ args \in ArtworkArgs \cup SearchArgs
    /\ net = <<>>
    /\ out = <<>>
    /\ results = Unset
    /\ game_id = None
    /\ title = None
    /\ images = <<>>
    /\ directory = None
    /\ selected = <<>>
    /\ idx = 0
    /\ resp = None
    /\ dirs = {}
    /\ written = <<>>
    /\ exc = NoExc
    /\ exit = None

Raise(e) == pc' = "raised" /\ exc' = e /\ exit' = exit

Return == pc' = "exited" /\ exc' = exc /\ exit' = Some(0)

(* _download_images, lines 160-172: resolve the game *)
DownloadImages_Resolve ==
    /\ pc = "main"
    /\ args.verb \in ArtworkVerbs
    /\ LET query == IF args.query.type = "str" THEN Split(args.query.val)
                    ELSE args.query.val
       IN  IF IsNone(args.game_id)
           THEN \E status \in Statuses :
                \E body \in (IF status = 200 THEN SearchBodies ELSE {ErrorBody}) :
                  LET r == AutoSearch(query, None, status, body)
                  IN  /\ net' = net \o r.req
                      /\ results' = r.ret
                      /\ IF r.exc.type # "None"
                         THEN /\ Raise(r.exc)
                              /\ out' = out \o r.out
                              /\ UNCHANGED <<game_id, title>>
                         ELSE IF r.ret.type = "NoneType"
                         THEN /\ Raise(PyError("TypeError"))
                              /\ out' = out \o r.out
                              /\ UNCHANGED <<game_id, title>>
                         ELSE IF r.ret.val = <<>>
                         THEN /\ Raise(PyError("IndexError"))
                              /\ out' = out \o r.out
                              /\ UNCHANGED <<game_id, title>>
                         ELSE LET game == r.ret.val[1]
                              IN  /\ out' = out \o r.out
                                         \o << <<"Found Game">>, PrintData(game) >>
                                  /\ game_id' = Some(game.id)
                                  /\ title' = Some(game.name)
                                  /\ pc' = "filters"
                                  /\ UNCHANGED <<exc, exit>>
           ELSE /\ game_id' = args.game_id
                /\ title' = None
                /\ pc' = "filters"
                /\ UNCHANGED <<net, out, results, exc, exit>>
    /\ UNCHANGED <<args, images, directory, selected, idx, resp, dirs, written>>

(* _download_images, lines 174-199: validate the filters, fetch the image  *)
(* list, create the directory                                              *)
DownloadImages_Fetch ==
    /\ pc = "filters"
    /\ IF args.types \notin ValidTypes
       THEN /\ Raise(ScriptError([text |-> "Unsupported style filter",
                                  value |-> args.types]))
            /\ UNCHANGED <<net, out, images, directory, selected, idx, dirs>>
       ELSE IF args.nsfw \notin ValidNsfw
       THEN /\ Raise(ScriptError([text |-> "Unsupported nsfw filter",
                                  value |-> args.nsfw]))
            /\ UNCHANGED <<net, out, images, directory, selected, idx, dirs>>
       ELSE \E status \in Statuses :
            \E n \in (IF status = 200 THEN 0..MaxImages ELSE {0}) :
              LET type == VerbArtwork(args.verb)
                  path == artwork_path(Val(game_id), type)
                  raised == RequestsGet(status, path)
                  data == ImageList(n)
                  dir == CreateDirectory(Val(game_id), type, title)
              IN  /\ net' = Append(net,
                         Request("artwork", path,
                                 SentParams(Payload(args.nsfw, args.types)),
                                 TRUE, status, [data |-> data]))
                  /\ IF raised.type # "None"
                     THEN /\ Raise(raised)
                          /\ UNCHANGED <<out, images, directory, selected, idx, dirs>>
                     ELSE IF Len(data) <= 0
                     THEN /\ images' = data
                          /\ out' = Append(out, <<"No artwork found", Val(game_id), title>>)
                          /\ Return
                          /\ UNCHANGED <<directory, selected, idx, dirs>>
                     ELSE /\ images' = data
                          /\ out' = Append(out, <<"Found images", Len(data), args.count>>)
                          /\ directory' = Some(dir)
                          /\ dirs' = dirs \cup {dir}
                          /\ selected' = PySlice(data, args.count)
                          /\ idx' = 1
                          /\ IF selected' = <<>>
                             THEN Return
                             ELSE pc' = "download" /\ UNCHANGED <<exc, exit>>
    /\ UNCHANGED <<args, results, game_id, title, resp, written>>

(* _download_images, lines 201-209: name the file and request the bytes *)
DownloadImages_Get ==
    /\ pc = "download"
    /\ \E status \in Statuses :
         LET link == IF args.thumb THEN "thumb" ELSE "url"
             image == selected[idx]
             file_name == FileName(Val(directory), Val(game_id), image, link)
             raised == RequestsGet(status, image.thumb)
         IN  /\ net' = Append(net, Request("image", image.thumb, NoParams, FALSE,
                                          status, [content |-> image.thumb]))
             /\ IF raised.type # "None"
                THEN Raise(raised) /\ resp' = resp
                ELSE /\ resp' = Some([file_name |-> file_name,
                                      content |-> image.thumb])
                     /\ pc' = "write"
                     /\ UNCHANGED <<exc, exit>>
    /\ UNCHANGED <<args, out, results, game_id, title, images, directory,
                   selected, idx, dirs, written>>

(* _download_images, lines 210-212: write the file, then the next record *)
DownloadImages_Write ==
    /\ pc = "write"
    /\ written' = Append(written, [name |-> Val(resp).file_name,
                                   content |-> Val(resp).content])
    /\ out' = Append(out, <<"File", Val(resp).file_name>>)
    /\ resp' = None
    /\ idx' = idx + 1
    /\ IF idx + 1 > Len(selected)
       THEN Return
       ELSE pc' = "download" /\ UNCHANGED <<exc, exit>>
    /\ UNCHANGED <<args, net, results, game_id, title, images, directory,
                   selected, dirs>>

(* action_search *)
ActionSearch ==
    /\ pc = "main"
    /\ args.verb = "search"
    /\ \E status \in Statuses :
       \E body \in (IF status = 200 THEN SearchBodies ELSE {ErrorBody}) :
         LET r == AutoSearch(args.query.val, args.game_id, status, body)
         IN  /\ net' = net \o r.req
             /\ results' = r.ret
             /\ IF r.exc.type # "None"
                THEN Raise(r.exc) /\ out' = out \o r.out
                ELSE IF r.ret.type = "NoneType"
                THEN Raise(PyError("TypeError")) /\ out' = out \o r.out
                ELSE LET shown == PySlice(r.ret.val, args.count)
                     IN  /\ out' = out \o r.out
                                \o << <<"Showing", args.count, Len(r.ret.val)>> >>
                                \o [i \in 1..Len(shown) |-> PrintData(shown[i])]
                         /\ Return
    /\ UNCHANGED <<args, game_id, title, images, directory, selected, idx,
                   resp, dirs, written>>

(* the top-level handler around main() *)
TopLevelHandler ==
    /\ pc = "raised"
    /\ pc' = "exited"
    /\ exit' = Some(1)
    /\ out' = Append(out, IF exc.type = "ScriptError"
                          THEN <<"Error: ", exc.msg>>
                          ELSE <<"Traceback", exc.type>>)
    /\ UNCHANGED <<args, net, results, game_id, title, images, directory,
                   selected, idx, resp, dirs, written, exc>>

Next ==
    \/ DownloadImages_Resolve
    \/ DownloadImages_Fetch
    \/ DownloadImages_Get
    \/ DownloadImages_Write
    \/ ActionSearch
    \/ TopLevelHandler

Spec == Init /\ [][Next]_vars

----------------------------------------------------------------------------
(* _create_directory on its own: every title up to MaxTitleLen characters *)

Titles == SeqsUpTo(Alphabet, MaxTitleLen)

SlugInit ==
    /\ pc = "create_directory"
    /\ args \in [verb : ArtworkVerbs, query : {ListQuery(<<>>)},
                 game_id : {None}, thumb : {FALSE}, nsfw : {"false"},
                 types : {"any"}, count : {Some(3)}]
    /\ net = <<>>
    /\ out = <<>>
    /\ results = Unset
    /\ game_id = Some(1234)
    /\ title \in {Some(t) : t \in Titles}
    /\ images = <<>>
    /\ directory = None
    /\ selected = <<>>
    /\ idx = 0
    /\ resp = None
    /\ dirs = {}
    /\ written = <<>>
    /\ exc = NoExc
    /\ exit = None

CreateDirectoryCall ==
    /\ pc = "create_directory"
    /\ LET dir == CreateDirectory(Val(game_id), VerbArtwork(args.verb), title)
       IN  directory' = Some(dir) /\ dirs' = dirs \cup {dir}
    /\ pc' = "created"
    /\ UNCHANGED <<args, net, out, results, game_id, title, images, selected,
                   idx, resp, written, exc, exit>>

SlugNext == CreateDirectoryCall

SlugSpec == SlugInit /\ [][SlugNext]_vars

----------------------------------------------------------------------------
(* Properties *)

ImageRequests == SelectSeq(net, LAMBDA e : e.kind = "image")

IsArtworkRun == args.verb \in ArtworkVerbs

(* C1: every image is fetched from the thumbnail URL when the thumbnail    *)
(* flag is set and from the full-resolution URL when it is not, and the    *)
(* requested URL is the one the file extension is derived from.            *)
C1_SourceFollowsThumbFlag ==
    /\ \A k \in 1..Len(ImageRequests) :
         ImageRequests[k].url =
            (IF args.thumb THEN selected[k].thumb ELSE selected[k].url)
    /\ \A k \in 1..Len(written) :
         /\ written[k].content =
               (IF args.thumb THEN selected[k].thumb ELSE selected[k].url)
         /\ written[k].name.ext = Suffix(written[k].content)

(* C2: a run of _download_images with an invalid types or nsfw value       *)
(* fails with the usage error and has issued no network request at all,    *)
(* with an explicit id as well as with a free-text query.                  *)
C2_InvalidFilterNeverReachesNetwork ==
    (IsArtworkRun /\ (args.types \notin ValidTypes \/ args.nsfw \notin ValidNsfw))
    => /\ net = <<>>
       /\ pc = "exited" =>
            /\ exc.type = "ScriptError"
            /\ exc.msg.text \in {"Unsupported style filter",
                                 "Unsupported nsfw filter"}

(* C3: when the search or by-id endpoint answers success = false,          *)
(* _auto_search returns an empty sequence of game records.                 *)
C3_UnsuccessfulSearchReturnsEmpty ==
    \A i \in 1..Len(net) :
      (net[i].kind \in {"search", "byid"} /\ net[i].status = 200
         /\ ~net[i].body.success)
      => (results.type = "list" /\ results.val = <<>>)

SearchFoundNothing ==
    \E i \in 1..Len(net) :
      /\ net[i].kind = "search" /\ net[i].status = 200
      /\ net[i].body.success
      /\ net[i].body.data.type = "list"
      /\ net[i].body.data.val = <<>>

FetchFoundNothing ==
    \E i \in 1..Len(net) :
      net[i].kind = "artwork" /\ net[i].status = 200 /\ net[i].body.data = <<>>

(* C4: in an artwork run, a search with zero game records and an artwork   *)
(* fetch with zero images are not errors: the run stops cleanly, with no   *)
(* exception, no directory created and no file written.                    *)
C4_EmptyResultsStopCleanly ==
    (IsArtworkRun /\ (SearchFoundNothing \/ FetchFoundNothing))
    => /\ exc.type = "None"
       /\ dirs = {}
       /\ written = <<>>
       /\ pc = "exited" => exit = Some(0)

DocumentedCollection(verb) ==
    CASE verb = "grid" -> "grids"
      [] verb = "hero" -> "heroes"
      [] verb = "logo" -> "logos"
      [] verb = "icon" -> "icons"

(* C5: grid, hero, logo and icon request grids/, heroes/, logos/ and       *)
(* icons/game/{id} under the API base URL, and the four categories map to  *)
(* four distinct collections and subdirectory names.                       *)
C5_VerbRequestsDocumentedCollection ==
    /\ \A i \in 1..Len(net) :
         net[i].kind = "artwork"
         => net[i].url = <<Top, DocumentedCollection(args.verb), "game", Val(game_id)>>
    /\ \A a, b \in ArtworkMembers : ArtworkValue(a) = ArtworkValue(b) => a = b

(* C6: a run that downloads with limit L over n image records writes       *)
(* min(L, n) files for a positive L and n files when the limit is None,    *)
(* one per record, for the first records in server order; with an explicit *)
(* id and no title the grid files lie under images/<id>/grids/.            *)
C6_LimitSelectsFirstRecords ==
    (IsArtworkRun /\ pc = "exited" /\ exit = Some(0)
       /\ (IsNone(args.count) \/ Val(args.count) > 0))
    => LET n == Len(images)
           m == IF IsNone(args.count) THEN n ELSE Min(Val(args.count), n)
       IN  /\ Len(written) = m
           /\ Cardinality({written[k].name : k \in 1..m}) = m
           /\ \A k \in 1..m :
                /\ written[k].name.id = images[k].id
                /\ written[k].name.score = images[k].score
                /\ written[k].name.nsfw = images[k].nsfw
                /\ written[k].name.game_id = Val(game_id)
                /\ (args.verb = "grid" /\ ~IsNone(args.game_id))
                   => written[k].name.dir =
                         [title |-> None, game_id |-> Val(args.game_id),
                          sub |-> "grids"]

C6_Witness ==
    /\ pc = "exited" /\ exit = Some(0)
    /\ args.verb = "grid" /\ args.game_id = Some(1234)
    /\ args.count = Some(2)
    /\ Len(images) >= 3
    /\ Len(written) = 2

RemoteFailure(i) ==
    /\ i = Len(net)
    /\ pc \in {"raised", "exited"}
    /\ exc.type = "ScriptError"
    /\ "code" \in DOMAIN exc.msg

(* C7: the GET helper fails with the remote error exactly when the status  *)
(* code is outside the 2xx range, and returns the response otherwise.      *)
C7_FailsExactlyOutside2xx ==
    \A i \in 1..Len(net) : RemoteFailure(i) <=> net[i].status \notin 200..299

(* C7 as amended: the GET helper fails with the remote error exactly when  *)
(* the status code is not 200; the message carries the status code, the    *)
(* API-key hint for 401 and the resolved URL for 404, and the failed       *)
(* request is the last one the run issues (it is not retried).             *)
C7_FailsExactlyWhenNot200 ==
    \A i \in 1..Len(net) :
      /\ RemoteFailure(i) <=> net[i].status # 200
      /\ net[i].status # 200 =>
           /\ i = Len(net)
           /\ exc.msg.code = net[i].status
           /\ (net[i].status = 401 <=> ~IsNone(exc.msg.hint))
           /\ (net[i].status = 404 <=> exc.msg.url = Some(net[i].url))
           /\ (net[i].status # 404 => IsNone(exc.msg.url))

C7_Witness ==
    /\ Len(net) >= 1
    /\ net[Len(net)].status = 204
    /\ exc.type = "ScriptError"
    /\ exc.msg.code = 204

(* C8: in every request to the artwork endpoint a filter whose value is    *)
(* any is omitted and the literal "any" is never sent; any other valid     *)
(* value is sent under its own parameter name, unchanged.                  *)
C8_AnyFilterIsOmitted ==
    \A i \in 1..Len(net) :
      net[i].kind = "artwork"
      => LET p == net[i].params
         IN  /\ \A k \in DOMAIN p : p[k] # "any"
             /\ \A f \in {"nsfw", "types"} :
                  IF args[f] = "any"
                  THEN f \notin DOMAIN p
                  ELSE f \in DOMAIN p /\ p[f] = args[f]

C8_Witness ==
    /\ Len(net) >= 1
    /\ net[Len(net)].kind = "artwork"
    /\ args.nsfw = "any"
    /\ args.types = "static"
    /\ DOMAIN net[Len(net)].params = {"types"}

(* The title with every maximal run of characters that are not Allowed     *)
(* replaced by one underscore: the characters kept are the allowed ones    *)
(* and the first character of each run.                                    *)
Collapse(t, Allowed(_)) ==
    LET positions == [i \in 1..Len(t) |-> i]
        kept == SelectSeq(positions,
                          LAMBDA i : Allowed(t[i]) \/ i = 1 \/ Allowed(t[i - 1]))
    IN  [j \in 1..Len(kept) |-> IF Allowed(t[kept[j]]) THEN t[kept[j]] ELSE "_"]

AsciiAllowed(c) == c \in AsciiAlnum \cup {"_", "-"}

WordAllowed(c) == c \in AsciiAlnum \cup UnicodeAlnum \cup {"_", "-"}

Slug == Val(Val(directory).title)

SlugComputed == ~IsNone(directory) /\ ~IsNone(title)

(* C9: for all titles the directory slug contains only characters of       *)
(* [A-Za-z0-9_-] and equals the title with every maximal run of characters *)
(* outside that set replaced by one underscore.                            *)
C9_SlugIsAsciiOnly ==
    SlugComputed
    => /\ \A i \in 1..Len(Slug) : AsciiAllowed(Slug[i])
       /\ Slug = Collapse(Val(title), AsciiAllowed)

(* C9 as amended: for all titles the directory slug contains only Unicode  *)
(* letters and digits, "_" and "-", and equals the title with every        *)
(* maximal run of other characters replaced by one underscore.             *)
C9_SlugCollapsesNonWordRuns ==
    SlugComputed
    => /\ \A i \in 1..Len(Slug) : WordAllowed(Slug[i])
       /\ Slug = Collapse(Val(title), WordAllowed)

C9_Witness ==
    /\ SlugComputed
    /\ Val(title) = <<":", " ", "U+00E9">>
    /\ Slug = <<"_", "U+00E9">>

(* C10: the selected records are handled one at a time in server order,    *)
(* each file written before the next request; when the fetch of record k   *)
(* fails the run ends with the error at the top level and exit status 1,   *)
(* the files of records 1..k-1 written and nothing requested or written    *)
(* for record k or later.                                                  *)
C10_DownloadsAreSequentialAndFailFast ==
    LET reqs == ImageRequests
    IN  /\ Len(written) <= Len(reqs)
        /\ Len(reqs) <= Len(written) + 1
        /\ Len(reqs) <= Len(selected)
        /\ \A k \in 1..Len(reqs) :
             reqs[k].url \in {selected[k].thumb, selected[k].url}
        /\ \A k \in 1..Len(written) : written[k].name.id = selected[k].id
        /\ Len(reqs) = Len(written) + 1
           => (pc = "write" \/ reqs[Len(reqs)].status # 200)
        /\ \A k \in 1..Len(reqs) :
             reqs[k].status # 200
             => /\ k = Len(reqs)
                /\ Len(written) = k - 1
                /\ pc \in {"raised", "exited"}
                /\ exc.type = "ScriptError"
                /\ pc = "exited"
                   => /\ exit = Some(1)
                      /\ out[Len(out)][1] = "Error: "

C10_Witness ==
    /\ pc = "exited"
    /\ Len(ImageRequests) = 2
    /\ ImageRequests[2].status = 500
    /\ Len(written) = 1
    /\ exit = Some(1)

====
